---- MODULE Spec2Model ----
\* A model of jimgswang/rq: src/src/queue.js (Rq: enqueue, dequeue, lock, unlock)
\* running against a Redis store, with several Rq instances on one queue name.
\*
\* The store executes each command atomically.  Every Rq instance owns one
\* non-blocking connection (_nbclient), on which commands are executed and
\* answered in the order they were sent, and one blocking connection (_bclient)
\* used by BRPOPLPUSH only.  Time is counted in ticks of half the lock time.
EXTENDS Integers, Sequences, FiniteSets, TLC

\* ---------------------------------------------------------------- bounds
\* Number of enqueue calls made in a run (so task ids range over 1..MaxEnqueue).
MaxEnqueue == 2
\* Number of dequeue calls made in a run, over all instances.
MaxDequeue == 2
\* Number of direct calls of the public lock(id, false) made in a run.
MaxLockCalls == 1
\* Number of direct calls of the public unlock(id) made in a run.
MaxUnlockCalls == 1
\* Number of enqueue calls, and of dequeue calls, in the runs with direct calls.
MaxLockTasks == 1
\* Number of commands the store answers with an error in a run.
MaxFaults == 1
\* Number of instances whose process terminates in a run.
MaxCrash == 1

\* config.lockTime (the PX argument of SET), in ticks.
LockTime == 2
\* The delay of the renewal timer: config.lockTime / 2.
RenewDelay == LockTime \div 2

\* The Rq instances; an instance's _lockToken (uuid.v4()) is identified with it.
Queues == {"qa", "qb"}
\* The data a producer may hand to enqueue.
Data == {"foo"}
\* The task ids the id counter can hand out within the bounds.
Ids == 1..MaxEnqueue

\* The task id of a waterfall that has none yet, and of an error that names none.
NoId == 0
NoRecord == "norecord"
NoToken == "notoken"
NoTimer == <<>>
NoCb == 0
NoReply == <<>>

VARIABLES
    idc,          \* store: the counter at keys.id
    waiting,      \* store: the list at keys.waiting (head first)
    working,      \* store: the list at keys.working (head first)
    record,       \* store: the hash at getKeyForId(id), or NoRecord
    lockKey,      \* store: the string at getKeyForId(id) + ':lock', with its ttl
    nbReq,        \* per instance: commands sent on _nbclient, not yet executed
    pipes,        \* per instance: the waterfalls started by its dequeue calls
    lockTimeout,  \* per instance: self.lockTimeout, the timer handle
    timers,       \* per instance: the live timers set by setTimeout
    unlockCalled, \* per instance: ids on which unlock was called since the last lock(id, false)
    assigned,     \* history: the ids INCR returned, in the order it returned them
    unlockReply,  \* history: per instance, what the callback of its last answered unlock was run with
    emitted,      \* history: how often each instance emitted each notification for each id
    calls,        \* history: how many enqueue, dequeue, lock and unlock calls were made
    crashed,      \* the instances whose process has terminated
    renewFailed,  \* history: per instance, the ids for which a renewal was not granted
    enqueueReply, \* history: what the callbacks of the enqueue calls were run with
    pushed        \* history: the ids pushed on the waiting list, in the order of the pushes

vars == <<idc, waiting, working, record, lockKey, nbReq, pipes,
          lockTimeout, timers, unlockCalled, assigned, unlockReply, emitted, calls,
          crashed, renewFailed, enqueueReply, pushed>>

store == <<idc, waiting, working, record, lockKey>>

\* ------------------------------------------------------------- key space
\* Rq.prototype.getKeyForId and the ':lock' suffix: the model indexes records
\* and lock keys by task id.
getKeyForId(id) == id

\* ------------------------------------------------------- store commands
\* A counter that is set rather than incremented.
IncrStuck(c) == 1

\* INCR keys.id: the new value of the counter, which is also the reply.
Incr(c) == c + 1

\* The batch without its HMSET: the id is published, the record is not written.
MultiLpushOnly(w, r, id, d) ==
    [waiting |-> <<id>> \o w, record |-> r]

\* MULTI / LPUSH keys.waiting id / HMSET key data / EXEC, applied as one step:
\* the lists and records after the batch.
MultiLpushHmset(w, r, id, d) ==
    [waiting |-> <<id>> \o w, record |-> [r EXCEPT ![getKeyForId(id)] = d]]

\* A move that reads the tail of waiting and leaves it there.
BrpoplpushKeep(w, k) ==
    [id |-> w[Len(w)],
     waiting |-> w,
     working |-> <<w[Len(w)]>> \o k]

\* A move that takes the head of waiting, the entry pushed last.
BrpoplpushHead(w, k) ==
    [id |-> w[1],
     waiting |-> Tail(w),
     working |-> <<w[1]>> \o k]

\* BRPOPLPUSH keys.waiting keys.working 0 on a non-empty waiting list: the
\* tail of waiting is removed and pushed on the head of working.
Brpoplpush(w, k) ==
    [id |-> w[Len(w)],
     waiting |-> SubSeq(w, 1, Len(w) - 1),
     working |-> <<w[Len(w)]>> \o k]

\* A SET that drops the NX argument.
SetPxAlways(cur, token, nx) ==
    [val |-> [tok |-> token, ttl |-> LockTime], res |-> "OK"]

\* SET key token PX lockTime [NX]: the value of the key afterwards and the
\* reply ("OK", or "nil" when NX finds the key present).
SetPx(cur, token, nx) ==
    IF nx /\ cur.tok # NoToken
    THEN [val |-> cur, res |-> "nil"]
    ELSE [val |-> [tok |-> token, ttl |-> LockTime], res |-> "OK"]

\* A release that deletes the key without comparing the token.
DeleteAlways(cur, token) ==
    [val |-> [tok |-> NoToken, ttl |-> 0], res |-> IF cur.tok = NoToken THEN 0 ELSE 1]

\* The EVAL script of unlock: delete the key only if it holds the token.
CompareAndDelete(cur, token) ==
    IF cur.tok = token
    THEN [val |-> [tok |-> NoToken, ttl |-> 0], res |-> 1]
    ELSE [val |-> cur, res |-> 0]

\* HGETALL key: the record, or NoRecord (an empty reply) when the key is absent.
Hgetall(r, id) == r[getKeyForId(id)]

\* A check that takes every reply for a granted lock.
IsLockedAlways(response) == TRUE

\* A check that takes every reply but nil for a granted lock.
IsLockedNotNil(response) == response # "nil"

\* Rq.prototype._isLocked
IsLocked(response) == response = "OK"

\* The replies of the commands of a MULTI batch, as EXEC returns them: the
\* length of the waiting list after LPUSH, and "OK" for HMSET.
ExecReply(w) == <<Len(w), "OK">>

\* An aborted batch whose LPUSH was applied all the same.
DiscardPushed(w, r, id, d) == [waiting |-> <<id>> \o w, record |-> r]

\* An EXEC that the store aborts: the batch is discarded, nothing is written.
Discard(w, r, id, d) == [waiting |-> w, record |-> r]

\* ------------------------------------------------------------- callbacks
\* The values a callback is run with: an array of replies, a number, or
\* undefined.
JsArray(v) == [type |-> "array", value |-> v]
JsNumber(n) == [type |-> "number", value |-> <<n>>]
JsUndefined == [type |-> "undefined", value |-> <<>>]

\* cb(err, result) of enqueue, for the call that was given id (NoId when INCR
\* failed) to publish data d.
EnqueueCb(id, d, err, result) == [id |-> id, data |-> d, err |-> err, result |-> result]

\* ------------------------------------------------------------ connections
\* A command sent on _nbclient: cb names the waterfall (an index of pipes) whose
\* callback takes the reply, NoCb when the caller passed no callback; data is
\* the enqueue data the command or its callback carries.
Cmd(op, id, nx, cb, d) == [op |-> op, id |-> id, nx |-> nx, cb |-> cb, data |-> d]

\* What the callback of unlock(id) is run with: the script's reply res.
Reply(id, res) == [id |-> id, res |-> res]

Send(q, c) == [nbReq EXCEPT ![q] = Append(@, c)]

\* ----------------------------------------------------------------- timers
\* A live timer is the pair <<id, d>>: it runs lock(id, true) and is due in d
\* ticks.  An instance's timers are a bag of such pairs.
TimerKeys == Ids \X (0..RenewDelay)

\* clearTimeout(h): the bag without the timer h names (nothing when h names none).
ClearTimeout(tm, h) ==
    IF h # NoTimer /\ tm[h] > 0 THEN [tm EXCEPT ![h] = @ - 1] ELSE tm

\* setTimeout(function() { self.lock(id, true) }, config.lockTime / 2)
SetTimeout(tm, id) == [tm EXCEPT ![<<id, RenewDelay>>] = @ + 1]

\* One tick passes over a bag of timers: a timer never runs early, and a due
\* one stays due until it runs.
TickTimers(tm) ==
    [k \in TimerKeys |->
        IF k[2] = 0 THEN tm[k] + (IF RenewDelay >= 1 THEN tm[<<k[1], 1>>] ELSE 0)
        ELSE IF k[2] < RenewDelay THEN tm[<<k[1], k[2] + 1>>]
        ELSE 0]

TickHandle(h) == IF h = NoTimer \/ h[2] = 0 THEN h ELSE <<h[1], h[2] - 1>>

\* A lock key that never expires.
TickLockKeep(cur) == cur

\* One tick passes over a lock key: the store removes it when its PX time is up.
TickLock(cur) ==
    IF cur.tok = NoToken THEN cur
    ELSE IF cur.ttl > 1 THEN [cur EXCEPT !.ttl = @ - 1]
    ELSE [tok |-> NoToken, ttl |-> 0]

\* ---------------------------------------------------------- notifications
EventNames == {"error", "complete", "fail"}

\* self.emit(ev, ...) for task id, n times over.
Emit(q, ev, id, n) == [emitted EXCEPT ![q][<<ev, id>>] = @ + n]

\* ------------------------------------------------------------------ state
NoPipes == <<>>

Init ==
    /\ idc = 0
    /\ waiting = <<>>
    /\ working = <<>>
    /\ record = [i \in Ids |-> NoRecord]
    /\ lockKey = [i \in Ids |-> [tok |-> NoToken, ttl |-> 0]]
    /\ nbReq = [q \in Queues |-> <<>>]
    /\ pipes = [q \in Queues |-> NoPipes]
    /\ lockTimeout = [q \in Queues |-> NoTimer]
    /\ timers = [q \in Queues |-> [k \in TimerKeys |-> 0]]
    /\ unlockCalled = [q \in Queues |-> {}]
    /\ assigned = <<>>
    /\ unlockReply = [q \in Queues |-> NoReply]
    /\ emitted = [q \in Queues |-> [e \in EventNames \X ({NoId} \cup Ids) |-> 0]]
    /\ calls = [enqueue |-> 0, dequeue |-> 0, lock |-> 0, unlock |-> 0, fault |-> 0]
    /\ crashed = {}
    /\ renewFailed = [q \in Queues |-> {}]
    /\ enqueueReply = {}
    /\ pushed = <<>>

\* ------------------------------------------------------------- Rq.lock
\* The synchronous part of Rq.prototype.lock(id, renew, callback) on instance
\* q, whose timers are tm when it starts: clearTimeout(self.lockTimeout), then
\* SET key token PX lockTime [NX].
LockSend(q, tm, id, renew, cb) ==
    /\ timers' = [timers EXCEPT ![q] = ClearTimeout(tm, lockTimeout[q])]
    /\ lockTimeout' = [lockTimeout EXCEPT ![q] = NoTimer]
    /\ nbReq' = Send(q, Cmd("SET", id, ~renew, cb, NoRecord))
    /\ unlockCalled' = [unlockCalled EXCEPT ![q] = IF renew THEN @ ELSE @ \ {id}]

\* The synchronous part of Rq.prototype.unlock(id, callback) on instance q:
\* clearTimeout(this.lockTimeout), then EVAL of the compare-and-delete script.
UnlockSend(q, id, cb) ==
    /\ timers' = [timers EXCEPT ![q] = ClearTimeout(@, lockTimeout[q])]
    /\ lockTimeout' = [lockTimeout EXCEPT ![q] = NoTimer]
    /\ nbReq' = Send(q, Cmd("EVAL", id, FALSE, cb, NoRecord))
    /\ unlockCalled' = [unlockCalled EXCEPT ![q] = @ \cup {id}]

\* ------------------------------------------------------- Rq.enqueue
\* A store command and the callback its reply runs are one step of the model:
\* the store executes the oldest command the instance sent on _nbclient and
\* the instance runs the callback.  What the instance does between the two
\* (calls, timers) it can equally do just before the store executes the
\* command, because the command is already in the connection's queue.

\* enqueue(data, callback): the first step of the waterfall sends INCR.
enqueue(q, d) ==
    /\ calls.enqueue < MaxEnqueue
    /\ calls' = [calls EXCEPT !.enqueue = @ + 1]
    /\ nbReq' = Send(q, Cmd("INCR", NoId, FALSE, NoCb, d))
    /\ UNCHANGED <<crashed, renewFailed, enqueueReply, pushed>>
    /\ UNCHANGED <<store, pipes, lockTimeout, timers, unlockCalled, assigned, unlockReply, emitted>>

\* INCR and its reply: the second step of the waterfall sends the MULTI batch
\* for the id INCR returned.
ReplyIncr(q) ==
    /\ nbReq[q] # <<>> /\ Head(nbReq[q]).op = "INCR"
    /\ idc' = Incr(idc)
    /\ assigned' = Append(assigned, Incr(idc))
    /\ nbReq' = [nbReq EXCEPT ![q] =
                    Append(Tail(@), Cmd("MULTI", Incr(idc), FALSE, NoCb, Head(@).data))]
    /\ UNCHANGED <<crashed, renewFailed, enqueueReply, pushed>>
    /\ UNCHANGED <<waiting, working, record, lockKey, pipes, lockTimeout, timers,
                   unlockCalled, unlockReply, emitted, calls>>

\* EXEC and its reply: the final callback runs cb(err, result).
ReplyMulti(q) ==
    /\ nbReq[q] # <<>> /\ Head(nbReq[q]).op = "MULTI"
    /\ LET c == Head(nbReq[q])
           m == MultiLpushHmset(waiting, record, c.id, c.data)
       IN /\ waiting' = m.waiting
          /\ record' = m.record
          /\ pushed' = Append(pushed, c.id)
          /\ enqueueReply' = enqueueReply \cup
                {EnqueueCb(c.id, c.data, FALSE, JsArray(ExecReply(m.waiting)))}
    /\ nbReq' = [nbReq EXCEPT ![q] = Tail(@)]
    /\ UNCHANGED <<crashed, renewFailed>>
    /\ UNCHANGED <<idc, working, lockKey, pipes, lockTimeout, timers,
                   unlockCalled, assigned, unlockReply, emitted, calls>>

\* ------------------------------------------------------- Rq.dequeue
\* A waterfall started by dequeue(handler) and the Task it hands over: where it
\* stands (pc), the task id and data, the error its completion function was
\* called with, and (history) whether the lock key held the instance's token
\* when the completion function was called.
Pipe(pc, id, d, err) == [pc |-> pc, id |-> id, data |-> d, err |-> err, owned |-> FALSE]

\* dequeue(handler): the first step of the waterfall blocks in BRPOPLPUSH.
dequeue(q) ==
    /\ calls.dequeue < MaxDequeue
    /\ calls' = [calls EXCEPT !.dequeue = @ + 1]
    /\ pipes' = [pipes EXCEPT ![q] = Append(@, Pipe("wait", NoId, NoRecord, FALSE))]
    /\ UNCHANGED <<crashed, renewFailed, enqueueReply, pushed>>
    /\ UNCHANGED <<store, nbReq, lockTimeout, timers, unlockCalled, assigned, unlockReply, emitted>>

\* The index of the oldest waterfall of q that is blocked in BRPOPLPUSH, 0 if none:
\* _bclient answers the calls in the order they were made.
FirstWaiting(q) ==
    IF \E p \in 1..Len(pipes[q]) : pipes[q][p].pc = "wait"
    THEN CHOOSE p \in 1..Len(pipes[q]) :
            /\ pipes[q][p].pc = "wait"
            /\ \A o \in 1..(p - 1) : pipes[q][o].pc # "wait"
    ELSE 0

\* BRPOPLPUSH is served for instance q and its reply runs the second step of
\* the waterfall: taskId = id; self.lock(id, false, callback).
ReplyBrpoplpush(q) ==
    /\ FirstWaiting(q) # 0
    /\ waiting # <<>>
    /\ LET m == Brpoplpush(waiting, working)
           p == FirstWaiting(q)
       IN /\ waiting' = m.waiting
          /\ working' = m.working
          /\ pipes' = [pipes EXCEPT ![q][p] = [@ EXCEPT !.pc = "lock", !.id = m.id]]
          /\ LockSend(q, timers[q], m.id, FALSE, p)
    /\ UNCHANGED <<crashed, renewFailed, enqueueReply, pushed>>
    /\ UNCHANGED <<idc, record, lockKey, assigned, unlockReply, emitted, calls>>

\* SET and its reply, which runs the callback inside lock: a granted lock sets
\* the renewal timer, any other reply emits 'error'; then cb(err, res).  For a
\* waterfall of dequeue the third step follows: HGETALL when the lock is
\* granted, and otherwise the final callback with couldNotLock, which emits
\* 'error' again.
ReplySet(q) ==
    /\ nbReq[q] # <<>> /\ Head(nbReq[q]).op = "SET"
    /\ LET c == Head(nbReq[q])
           s == SetPx(lockKey[c.id], q, c.nx)
       IN /\ lockKey' = [lockKey EXCEPT ![c.id] = s.val]
          /\ IF IsLocked(s.res)
             THEN /\ timers' = [timers EXCEPT ![q] = SetTimeout(@, c.id)]
                  /\ lockTimeout' = [lockTimeout EXCEPT ![q] = <<c.id, RenewDelay>>]
             ELSE UNCHANGED <<timers, lockTimeout>>
          /\ emitted' = IF IsLocked(s.res) THEN emitted
                        ELSE Emit(q, "error", c.id, IF c.cb = NoCb THEN 1 ELSE 2)
          /\ IF c.cb = NoCb
             THEN /\ nbReq' = [nbReq EXCEPT ![q] = Tail(@)]
                  /\ UNCHANGED pipes
             ELSE IF IsLocked(s.res)
             THEN /\ pipes' = [pipes EXCEPT ![q][c.cb].pc = "load"]
                  /\ nbReq' = [nbReq EXCEPT ![q] =
                                  Append(Tail(@), Cmd("HGETALL", c.id, FALSE, c.cb, NoRecord))]
             ELSE /\ pipes' = [pipes EXCEPT ![q][c.cb].pc = "error"]
                  /\ nbReq' = [nbReq EXCEPT ![q] = Tail(@)]
    /\ UNCHANGED <<crashed, renewFailed, enqueueReply, pushed>>
    /\ UNCHANGED <<idc, waiting, working, record, unlockCalled, assigned, unlockReply, calls>>

\* HGETALL and its reply: the fourth step builds the Task and the final
\* callback runs handler(task).
ReplyHgetall(q) ==
    /\ nbReq[q] # <<>> /\ Head(nbReq[q]).op = "HGETALL"
    /\ LET c == Head(nbReq[q])
       IN pipes' = [pipes EXCEPT ![q][c.cb] =
                       [@ EXCEPT !.pc = "task", !.data = Hgetall(record, c.id)]]
    /\ nbReq' = [nbReq EXCEPT ![q] = Tail(@)]
    /\ UNCHANGED <<crashed, renewFailed, enqueueReply, pushed>>
    /\ UNCHANGED <<store, lockTimeout, timers, unlockCalled, assigned, unlockReply,
                   emitted, calls>>

\* ------------------------------------------------------------- Task.done
\* A completion function that notifies at once and never releases the lock.
doneNoRelease(q, p, err) ==
    /\ p \in 1..Len(pipes[q]) /\ pipes[q][p].pc = "task"
    /\ pipes' = [pipes EXCEPT ![q][p] = [@ EXCEPT !.pc = "end", !.err = err]]
    /\ emitted' = Emit(q, IF err THEN "fail" ELSE "complete", pipes[q][p].id, 1)
    /\ UNCHANGED <<crashed, renewFailed, enqueueReply, pushed>>
    /\ UNCHANGED <<store, nbReq, lockTimeout, timers, unlockCalled, assigned,
                   unlockReply, calls>>

\* A completion function that releases the lock twice, each with its callback.
doneTwice(q, p, err) ==
    /\ p \in 1..Len(pipes[q]) /\ pipes[q][p].pc = "task"
    /\ pipes' = [pipes EXCEPT ![q][p] = [@ EXCEPT !.pc = "unlock", !.err = err]]
    /\ timers' = [timers EXCEPT ![q] = ClearTimeout(@, lockTimeout[q])]
    /\ lockTimeout' = [lockTimeout EXCEPT ![q] = NoTimer]
    /\ nbReq' = [nbReq EXCEPT ![q] =
                    @ \o << Cmd("EVAL", pipes[q][p].id, FALSE, p, NoRecord),
                            Cmd("EVAL", pipes[q][p].id, FALSE, p, NoRecord) >>]
    /\ unlockCalled' = [unlockCalled EXCEPT ![q] = @ \cup {pipes[q][p].id}]
    /\ UNCHANGED <<crashed, renewFailed, enqueueReply, pushed>>
    /\ UNCHANGED <<store, assigned, unlockReply, emitted, calls>>

\* The consumer calls the completion function of the task its handler was
\* given, with an error (err) or without: the lock is released through
\* unlock, whose callback sends the notification.
done(q, p, err) ==
    /\ p \in 1..Len(pipes[q]) /\ pipes[q][p].pc = "task"
    /\ pipes' = [pipes EXCEPT ![q][p] =
                    [@ EXCEPT !.pc = "unlock", !.err = err,
                              !.owned = (lockKey[pipes[q][p].id].tok = q)]]
    /\ UnlockSend(q, pipes[q][p].id, p)
    /\ UNCHANGED <<crashed, renewFailed, enqueueReply, pushed>>
    /\ UNCHANGED <<store, assigned, unlockReply, emitted, calls>>

\* EVAL and its reply, which runs unlock's callback: for a task's completion,
\* 'complete' with the task or 'fail' with the error and the task.
ReplyEval(q) ==
    /\ nbReq[q] # <<>> /\ Head(nbReq[q]).op = "EVAL"
    /\ LET c == Head(nbReq[q])
           s == CompareAndDelete(lockKey[c.id], q)
       IN /\ lockKey' = [lockKey EXCEPT ![c.id] = s.val]
          /\ unlockReply' = [unlockReply EXCEPT ![q] = Reply(c.id, s.res)]
          /\ IF c.cb = NoCb
             THEN UNCHANGED <<pipes, emitted>>
             ELSE /\ pipes' = [pipes EXCEPT ![q][c.cb].pc = "end"]
                  /\ emitted' = Emit(q, IF pipes[q][c.cb].err THEN "fail" ELSE "complete",
                                     c.id, 1)
    /\ nbReq' = [nbReq EXCEPT ![q] = Tail(@)]
    /\ UNCHANGED <<crashed, renewFailed, enqueueReply, pushed>>
    /\ UNCHANGED <<idc, waiting, working, record, lockTimeout, timers,
                   unlockCalled, assigned, calls>>

\* ------------------------------------------------- direct calls and timers
\* A caller runs the public lock(id, false) with no callback.
lock(q, id) ==
    /\ calls.lock < MaxLockCalls
    /\ calls' = [calls EXCEPT !.lock = @ + 1]
    /\ LockSend(q, timers[q], id, FALSE, NoCb)
    /\ UNCHANGED <<crashed, renewFailed, enqueueReply, pushed>>
    /\ UNCHANGED <<store, pipes, assigned, unlockReply, emitted>>

\* A caller runs the public unlock(id) with no callback.
unlock(q, id) ==
    /\ calls.unlock < MaxUnlockCalls
    /\ calls' = [calls EXCEPT !.unlock = @ + 1]
    /\ UnlockSend(q, id, NoCb)
    /\ UNCHANGED <<crashed, renewFailed, enqueueReply, pushed>>
    /\ UNCHANGED <<store, pipes, assigned, unlockReply, emitted>>

\* A due renewal timer of q runs: self.lock(id, true).
TimerFire(q, id) ==
    /\ timers[q][<<id, 0>>] > 0
    /\ LockSend(q, [timers[q] EXCEPT ![<<id, 0>>] = @ - 1], id, TRUE, NoCb)
    /\ UNCHANGED <<crashed, renewFailed, enqueueReply, pushed>>
    /\ UNCHANGED <<store, pipes, assigned, unlockReply, emitted, calls>>

\* ------------------------------------------------------ store errors
\* The store answers a command with an error: the command is not executed and
\* its callback is run with (err, undefined).

\* The res a callback is run with when the store answers with an error.
NoRes == "undefined"

\* A waterfall that goes on to its next step in spite of an error.
WaterfallIgnore(err, next) == next

\* async.waterfall: the step a waterfall of dequeue takes when a step calls
\* back with err: the final callback with the error, or else the next step.
Waterfall(err, next) == IF err THEN "error" ELSE next

\* The store may answer one more command with an error.
MayFail == calls.fault < MaxFaults

Failed == [calls EXCEPT !.fault = @ + 1]

\* INCR fails: the final callback of enqueue emits 'error' and runs cb(err).
ErrorIncr(q) ==
    /\ MayFail
    /\ nbReq[q] # <<>> /\ Head(nbReq[q]).op = "INCR"
    /\ calls' = Failed
    /\ nbReq' = [nbReq EXCEPT ![q] = Tail(@)]
    /\ emitted' = Emit(q, "error", NoId, 1)
    /\ enqueueReply' = enqueueReply \cup
            {EnqueueCb(NoId, Head(nbReq[q]).data, TRUE, JsUndefined)}
    /\ UNCHANGED <<store, pipes, lockTimeout, timers, unlockCalled, assigned,
                   unlockReply, crashed, renewFailed, pushed>>

\* EXEC fails, the batch is discarded: the final callback of enqueue emits
\* 'error' and runs cb(err).
ErrorMulti(q) ==
    /\ MayFail
    /\ nbReq[q] # <<>> /\ Head(nbReq[q]).op = "MULTI"
    /\ calls' = Failed
    /\ LET c == Head(nbReq[q])
           m == Discard(waiting, record, c.id, c.data)
       IN /\ waiting' = m.waiting
          /\ record' = m.record
          /\ enqueueReply' = enqueueReply \cup {EnqueueCb(c.id, c.data, TRUE, JsUndefined)}
    /\ nbReq' = [nbReq EXCEPT ![q] = Tail(@)]
    /\ emitted' = Emit(q, "error", NoId, 1)
    /\ UNCHANGED <<idc, working, lockKey, pipes, lockTimeout, timers, unlockCalled,
                   assigned, unlockReply, crashed, renewFailed, pushed>>

\* BRPOPLPUSH fails: the final callback of dequeue emits 'error'.
ErrorBrpoplpush(q) ==
    /\ MayFail
    /\ FirstWaiting(q) # 0
    /\ calls' = Failed
    /\ pipes' = [pipes EXCEPT ![q][FirstWaiting(q)].pc = Waterfall(TRUE, "lock")]
    /\ emitted' = Emit(q, "error", NoId, 1)
    /\ UNCHANGED <<store, nbReq, lockTimeout, timers, unlockCalled, assigned,
                   unlockReply, crashed, renewFailed, enqueueReply, pushed>>

\* SET fails: the callback inside lock finds res not 'OK' and emits 'error'
\* with couldNotLock(id), then cb(err, res); in a waterfall of dequeue the
\* final callback emits 'error' with err.
ErrorSet(q) ==
    /\ MayFail
    /\ nbReq[q] # <<>> /\ Head(nbReq[q]).op = "SET"
    /\ calls' = Failed
    /\ LET c == Head(nbReq[q])
       IN /\ IF IsLocked(NoRes)
             THEN /\ timers' = [timers EXCEPT ![q] = SetTimeout(@, c.id)]
                  /\ lockTimeout' = [lockTimeout EXCEPT ![q] = <<c.id, RenewDelay>>]
                  /\ emitted' = IF c.cb = NoCb THEN emitted ELSE Emit(q, "error", NoId, 1)
             ELSE /\ UNCHANGED <<timers, lockTimeout>>
                  /\ emitted' = [emitted EXCEPT
                                    ![q][<<"error", c.id>>] = @ + 1,
                                    ![q][<<"error", NoId>>] = @ + (IF c.cb = NoCb THEN 0 ELSE 1)]
          /\ renewFailed' = [renewFailed EXCEPT ![q] = IF c.nx THEN @ ELSE @ \cup {c.id}]
          /\ pipes' = IF c.cb = NoCb THEN pipes
                      ELSE [pipes EXCEPT ![q][c.cb].pc = Waterfall(TRUE, "load")]
    /\ nbReq' = [nbReq EXCEPT ![q] = Tail(@)]
    /\ UNCHANGED <<store, unlockCalled, assigned, unlockReply, crashed, enqueueReply, pushed>>

\* HGETALL fails: the final callback of dequeue emits 'error'.
ErrorHgetall(q) ==
    /\ MayFail
    /\ nbReq[q] # <<>> /\ Head(nbReq[q]).op = "HGETALL"
    /\ calls' = Failed
    /\ pipes' = [pipes EXCEPT ![q][Head(nbReq[q]).cb].pc = Waterfall(TRUE, "task")]
    /\ nbReq' = [nbReq EXCEPT ![q] = Tail(@)]
    /\ emitted' = Emit(q, "error", NoId, 1)
    /\ UNCHANGED <<store, lockTimeout, timers, unlockCalled, assigned, unlockReply,
                   crashed, renewFailed, enqueueReply, pushed>>

\* ------------------------------------------------- process termination
Alive(q) == q \notin crashed

\* The process of instance q terminates: its timers and callbacks are gone;
\* the commands it sent on _nbclient may still reach the store.
Crash(q) ==
    /\ Alive(q)
    /\ Cardinality(crashed) < MaxCrash
    /\ crashed' = crashed \cup {q}
    /\ timers' = [timers EXCEPT ![q] = [k \in TimerKeys |-> 0]]
    /\ lockTimeout' = [lockTimeout EXCEPT ![q] = NoTimer]
    /\ UNCHANGED <<store, nbReq, pipes, unlockCalled, assigned, unlockReply, emitted,
                   calls, renewFailed, enqueueReply, pushed>>

\* The store executes the oldest command a terminated instance had sent; no
\* callback runs.
Orphan(q) ==
    /\ ~Alive(q)
    /\ nbReq[q] # <<>>
    /\ LET c == Head(nbReq[q])
           m == MultiLpushHmset(waiting, record, c.id, c.data)
       IN /\ idc' = IF c.op = "INCR" THEN Incr(idc) ELSE idc
          /\ assigned' = IF c.op = "INCR" THEN Append(assigned, Incr(idc)) ELSE assigned
          /\ waiting' = IF c.op = "MULTI" THEN m.waiting ELSE waiting
          /\ record' = IF c.op = "MULTI" THEN m.record ELSE record
          /\ pushed' = IF c.op = "MULTI" THEN Append(pushed, c.id) ELSE pushed
          /\ lockKey' = IF c.op = "SET"
                           THEN [lockKey EXCEPT ![c.id] = SetPx(@, q, c.nx).val]
                        ELSE IF c.op = "EVAL"
                           THEN [lockKey EXCEPT ![c.id] = CompareAndDelete(@, q).val]
                        ELSE lockKey
    /\ nbReq' = [nbReq EXCEPT ![q] = Tail(@)]
    /\ UNCHANGED <<working, pipes, lockTimeout, timers, unlockCalled, unlockReply,
                   emitted, calls, crashed, renewFailed, enqueueReply>>

\* The connection of a terminated instance is closed before the store has
\* read the oldest command the instance had sent: the command is lost.
Lost(q) ==
    /\ ~Alive(q)
    /\ nbReq[q] # <<>>
    /\ nbReq' = [nbReq EXCEPT ![q] = Tail(@)]
    /\ UNCHANGED <<store, pipes, lockTimeout, timers, unlockCalled, assigned,
                   unlockReply, emitted, calls, crashed, renewFailed, enqueueReply, pushed>>

\* ------------------------------------------------------------------ time
\* Whether a tick changes anything: a lock key is set or a timer is not yet due.
TimeMatters ==
    \/ \E i \in Ids : lockKey[i].tok # NoToken
    \/ \E q \in Queues, k \in TimerKeys : k[2] > 0 /\ timers[q][k] > 0

\* Half the lock time passes.
Tick ==
    /\ TimeMatters
    /\ lockKey' = [i \in Ids |-> TickLock(lockKey[i])]
    /\ timers' = [q \in Queues |-> TickTimers(timers[q])]
    /\ lockTimeout' = [q \in Queues |-> TickHandle(lockTimeout[q])]
    /\ UNCHANGED <<crashed, renewFailed, enqueueReply, pushed>>
    /\ UNCHANGED <<idc, waiting, working, record, nbReq, pipes,
                   unlockCalled, assigned, unlockReply, emitted, calls>>

\* Half the lock time passes while every instance is idle: no due timer is
\* waiting to run and no command is waiting for the store or for its reply.
\* Timers run on time and the store answers well within half the lock time.
TickOnTime ==
    /\ \A q \in Queues : nbReq[q] = <<>>
    /\ \A q \in Queues, i \in Ids : timers[q][<<i, 0>>] = 0
    /\ Tick

\* --------------------------------------------------------- specification
\* What the store and the instances do on their own.
Run ==
    \/ \E q \in Queues, i \in Ids : TimerFire(q, i)
    \/ \E q \in Queues : ReplyIncr(q)
    \/ \E q \in Queues : ReplyMulti(q)
    \/ \E q \in Queues : ReplyBrpoplpush(q)
    \/ \E q \in Queues : ReplySet(q)
    \/ \E q \in Queues : ReplyHgetall(q)
    \/ \E q \in Queues : ReplyEval(q)

\* Producers and consumers: enqueue, dequeue and the tasks' completion.
Work ==
    \/ \E q \in Queues, d \in Data : enqueue(q, d)
    \/ \E q \in Queues : dequeue(q)
    \/ \E q \in Queues, p \in 1..MaxDequeue, e \in BOOLEAN : done(q, p, e)

\* Producers and consumers over a store and instances of any speed: a tick
\* may pass at any moment, so replies and timers may be arbitrarily late.
Next == Work \/ Run \/ Tick

Spec == Init /\ [][Next]_vars

\* The same, with timers that run on time and a store that answers in time.
NextOnTime == Work \/ Run \/ TickOnTime

SpecOnTime == Init /\ [][NextOnTime]_vars

\* The store answers a command with an error.
Fault ==
    \/ \E q \in Queues : ErrorIncr(q)
    \/ \E q \in Queues : ErrorMulti(q)
    \/ \E q \in Queues : ErrorBrpoplpush(q)
    \/ \E q \in Queues : ErrorSet(q)
    \/ \E q \in Queues : ErrorHgetall(q)

\* Producers and consumers over a store that may answer with an error.
NextFault == Work \/ Run \/ Tick \/ Fault

SpecFault == Init /\ [][NextFault]_vars

\* Producers and consumers whose process may terminate at any moment: a
\* terminated instance makes no call and runs no callback or timer.
NextCrash ==
    \/ \E q \in Queues, d \in Data : Alive(q) /\ enqueue(q, d)
    \/ \E q \in Queues : Alive(q) /\ dequeue(q)
    \/ \E q \in Queues, p \in 1..MaxDequeue, e \in BOOLEAN : Alive(q) /\ done(q, p, e)
    \/ \E q \in Queues, i \in Ids : Alive(q) /\ TimerFire(q, i)
    \/ \E q \in Queues : Alive(q) /\ ReplyIncr(q)
    \/ \E q \in Queues : Alive(q) /\ ReplyMulti(q)
    \/ \E q \in Queues : Alive(q) /\ ReplyBrpoplpush(q)
    \/ \E q \in Queues : Alive(q) /\ ReplySet(q)
    \/ \E q \in Queues : Alive(q) /\ ReplyHgetall(q)
    \/ \E q \in Queues : Alive(q) /\ ReplyEval(q)
    \/ \E q \in Queues : Crash(q)
    \/ \E q \in Queues : Orphan(q)
    \/ \E q \in Queues : Lost(q)
    \/ Tick

SpecCrash == Init /\ [][NextCrash]_vars

\* One task and one consumer, and callers of the public lock and unlock.
NextLock ==
    \/ \E q \in Queues, d \in Data : calls.enqueue < MaxLockTasks /\ enqueue(q, d)
    \/ \E q \in Queues : calls.dequeue < MaxLockTasks /\ dequeue(q)
    \/ \E q \in Queues, p \in 1..MaxDequeue, e \in BOOLEAN : done(q, p, e)
    \/ \E q \in Queues, i \in Ids : lock(q, i)
    \/ \E q \in Queues, i \in Ids : unlock(q, i)
    \/ Run
    \/ Tick

SpecLock == Init /\ [][NextLock]_vars

\* The same, over a store that may answer with an error.
NextLockFault == NextLock \/ Fault

SpecLockFault == Init /\ [][NextLockFault]_vars

\* ------------------------------------------------------------ properties
Occurrences(seq, i) == Cardinality({k \in 1..Len(seq) : seq[k] = i})

\* The waterfalls, as pairs <<instance, index>>.
Pipes == {qp \in Queues \X (1..MaxDequeue) : qp[2] <= Len(pipes[qp[1]])}

PipeOf(qp) == pipes[qp[1]][qp[2]]

\* The waterfalls BRPOPLPUSH answered with id i.
Received(i) == {qp \in Pipes : PipeOf(qp).pc # "wait" /\ PipeOf(qp).id = i}

\* The waterfalls that ran handler(task) for id i.
Dispatched(i) == {qp \in Pipes : PipeOf(qp).pc \in {"task", "unlock", "end"} /\ PipeOf(qp).id = i}

\* The waterfalls whose lock(id, false) on i was granted and that have not
\* had their release executed.
Granted(i) == {qp \in Pipes : PipeOf(qp).pc \in {"load", "task", "unlock"} /\ PipeOf(qp).id = i}

\* In this step the store executes the oldest command of q, which is an op.
Executes(q, op) ==
    /\ nbReq[q] # <<>>
    /\ Head(nbReq[q]).op = op
    /\ nbReq'[q] # nbReq[q]
    /\ Len(nbReq'[q]) <= Len(nbReq[q])

\* In this step q sends a SET for id i with renew as given.
SendsSet(q, i, renew) ==
    /\ Len(nbReq'[q]) = Len(nbReq[q]) + 1
    /\ LET c == nbReq'[q][Len(nbReq'[q])]
       IN c.op = "SET" /\ c.id = i /\ c.nx = ~renew

\* C1 - Exclusive delivery: every task id is in the waiting and working lists
\* at most once altogether, each id in the working list was handed to exactly
\* one waterfall (so of two blocked dequeues facing one waiting entry one gets
\* the id and the other stays blocked), and at most one handler is run for it.
C1_ExclusiveDelivery ==
    \A i \in Ids :
        /\ Occurrences(waiting, i) + Occurrences(working, i) <= 1
        /\ Cardinality(Received(i)) = Occurrences(working, i)
        /\ Cardinality(Dispatched(i)) <= 1

\* Two instances were blocked in dequeue with one entry waiting: one of them
\* ran its handler for the task and the other is still blocked.
C1_Witness ==
    \E qp \in Pipes, qo \in Pipes :
        /\ qp[1] # qo[1]
        /\ PipeOf(qp).pc = "task"
        /\ PipeOf(qo).pc = "wait"
        /\ working = <<PipeOf(qp).id>>
        /\ waiting = <<>>

\* C2 - Exclusive claim: a SET with NX (lock(id, false)) executed while the
\* lock key exists leaves the key as it is and is not granted (no renewal
\* timer is set, 'error' is emitted, a waterfall that asked for it ends in
\* error), and at all times at most one waterfall holds a granted lock on an id.
C2_ExclusiveClaim ==
    /\ [][\A q \in Queues :
            (/\ Executes(q, "SET")
             /\ Head(nbReq[q]).nx
             /\ lockKey[Head(nbReq[q]).id].tok # NoToken)
            => LET c == Head(nbReq[q])
               IN /\ lockKey'[c.id] = lockKey[c.id]
                  /\ timers'[q] = timers[q]
                  /\ emitted'[q][<<"error", c.id>>] > emitted[q][<<"error", c.id>>]
                  /\ (c.cb # NoCb => pipes'[q][c.cb].pc = "error")]_vars
    /\ [](\A i \in Ids : Cardinality(Granted(i)) <= 1)

\* A waterfall's first acquisition was refused and the key still holds the
\* token of the other instance.
C2_Witness ==
    \E qp \in Pipes :
        /\ PipeOf(qp).pc = "error"
        /\ lockKey[PipeOf(qp).id].tok \notin {NoToken, qp[1]}

\* C3 - Atomic publish: every id in the waiting list has its record written,
\* and so has every id a waterfall popped; the data a handler is given is a
\* written record.
C3_AtomicPublish ==
    /\ \A k \in 1..Len(waiting) : record[waiting[k]] \in Data
    /\ \A qp \in Pipes :
          /\ PipeOf(qp).pc # "wait" => record[PipeOf(qp).id] \in Data
          /\ PipeOf(qp).pc \in {"task", "unlock", "end"} => PipeOf(qp).data \in Data

\* A consumer loaded a record and ran its handler while another id is waiting.
C3_Witness ==
    /\ waiting # <<>>
    /\ \E qp \in Pipes : PipeOf(qp).pc = "task" /\ PipeOf(qp).data \in Data

\* C4 - Id uniqueness: the ids handed out by INCR, in the order of the
\* increments, are strictly increasing (hence pairwise distinct), and so are
\* the ids of the enqueue calls still in progress.
C4_IdUniqueness ==
    /\ \A j \in 1..Len(assigned), k \in 1..Len(assigned) :
          j < k => assigned[j] < assigned[k]
    /\ \A q \in Queues, o \in Queues :
          \A j \in 1..Len(nbReq[q]), k \in 1..Len(nbReq[o]) :
              (/\ nbReq[q][j].op = "MULTI" /\ nbReq[o][k].op = "MULTI"
               /\ nbReq[q][j].id = nbReq[o][k].id)
              => (q = o /\ j = k)

\* Two instances have each been given an id and are about to write their batch.
C4_Witness ==
    /\ Len(assigned) >= 2
    /\ \E q \in Queues, o \in Queues :
          /\ q # o
          /\ \E j \in 1..Len(nbReq[q]) : nbReq[q][j].op = "MULTI"
          /\ \E k \in 1..Len(nbReq[o]) : nbReq[o][k].op = "MULTI"

\* C5 - Release is safe against foreign ownership: when the store executes the
\* script of unlock(id) for an instance whose token is not the value of the
\* lock key (absent, or another instance's token), no lock key changes and
\* the callback is run with 0.
C5_ForeignReleaseNoop ==
    [][\A q \in Queues :
          (Executes(q, "EVAL") /\ lockKey[Head(nbReq[q]).id].tok # q)
          => /\ lockKey' = lockKey
             /\ unlockReply'[q] = Reply(Head(nbReq[q]).id, 0)]_vars

\* An unlock was answered 0 and the key still holds another instance's token.
C5_Witness ==
    \E q \in Queues, i \in Ids :
        /\ unlockReply[q] = Reply(i, 0)
        /\ lockKey[i].tok \notin {NoToken, q}

\* C6 - Release stops renewal: once unlock(id) was called on an instance, the
\* instance sends no renewal SET (lock(id, true)) for id any more.
C6_ReleaseStopsRenewal ==
    [][\A q \in Queues, i \in Ids :
          i \in unlockCalled[q] => ~SendsSet(q, i, TRUE)]_vars

\* C7 - Renewal before expiry, with timers that run on time and a store that
\* answers in time: while a handler holds a task (its lock was granted, no
\* renewal was refused and the task is not released), the lock key has not
\* expired: it holds the instance's token.
C7_RenewalBeforeExpiry ==
    \A qp \in Pipes :
        (/\ PipeOf(qp).pc = "task"
         /\ emitted[qp[1]][<<"error", PipeOf(qp).id>>] = 0)
        => lockKey[PipeOf(qp).id].tok = qp[1]

\* C8 - Completion ordering: an instance has emitted 'complete' or 'fail' for
\* a task only after it called unlock for the task (the script was sent).
C8_CompletionOrdering ==
    \A q \in Queues, i \in Ids :
        emitted[q][<<"complete", i>>] + emitted[q][<<"fail", i>>] > 0
        => i \in unlockCalled[q]

\* A 'complete' was emitted.
C8_Witness ==
    \E q \in Queues, i \in Ids : emitted[q][<<"complete", i>>] = 1

\* How often any instance emitted ev for task i.
EmittedBy(ev, i, q) == emitted[q][<<ev, i>>]

\* C9 - Completion outcome: a task whose completion function was called and
\* whose release was answered got exactly one notification, from the instance
\* that claimed it: 'fail' if an error was passed and 'complete' if not; every
\* other count of 'complete' and 'fail' is 0.
C9_CompletionOutcome ==
    \A i \in Ids, q \in Queues :
        LET ended == {qp \in Dispatched(i) : qp[1] = q /\ PipeOf(qp).pc = "end"}
            ok == {qp \in ended : ~PipeOf(qp).err}
            ko == {qp \in ended : PipeOf(qp).err}
        IN /\ EmittedBy("complete", i, q) = Cardinality(ok)
           /\ EmittedBy("fail", i, q) = Cardinality(ko)
           /\ Cardinality(ended) <= 1

\* One task was completed with an error and another without.
C9_Witness ==
    \E qp \in Pipes, qo \in Pipes :
        /\ PipeOf(qp).pc = "end" /\ PipeOf(qp).err
        /\ EmittedBy("fail", PipeOf(qp).id, qp[1]) = 1
        /\ PipeOf(qo).pc = "end" /\ ~PipeOf(qo).err
        /\ EmittedBy("complete", PipeOf(qo).id, qo[1]) = 1

\* C10 - Lock released on completion: once the release of a task completed
\* without error by the instance owning its lock has been answered, the lock
\* key is absent.
C10_ReleasedStaysAbsent ==
    \A qp \in Pipes :
        (PipeOf(qp).pc = "end" /\ ~PipeOf(qp).err /\ PipeOf(qp).owned)
        => lockKey[PipeOf(qp).id].tok = NoToken

\* In this step the store refuses the first acquisition of waterfall p of q:
\* it executes the waterfall's SET with NX while the lock key exists.
RefusesClaim(q, p) ==
    /\ Executes(q, "SET")
    /\ Head(nbReq[q]).nx
    /\ Head(nbReq[q]).cb = p
    /\ lockKey[Head(nbReq[q]).id].tok # NoToken

\* C11 - Failed claim is fatal: when the store refuses the first acquisition
\* of a waterfall of dequeue, the instance emits 'error' for the task id, sends
\* no HGETALL and the waterfall ends in its error branch; a waterfall in its
\* error branch stays there, with no record read: its handler is never run.
C11_FailedClaimFatal ==
    /\ [][\A q \in Queues, p \in 1..MaxDequeue :
            RefusesClaim(q, p)
            => LET c == Head(nbReq[q])
               IN /\ nbReq'[q] = Tail(nbReq[q])
                  /\ pipes'[q][p].pc = "error"
                  /\ pipes'[q][p].data = NoRecord
                  /\ emitted'[q][<<"error", c.id>>] > emitted[q][<<"error", c.id>>]]_vars
    /\ [][\A qp \in Pipes :
            PipeOf(qp).pc = "error"
            => /\ pipes'[qp[1]][qp[2]].pc = "error"
               /\ pipes'[qp[1]][qp[2]].data = NoRecord]_vars

\* A waterfall ended in error for a task whose record is written and was not
\* read, after 'error' was emitted for the task; the instance has nothing in
\* flight.
C11_Witness ==
    \E qp \in Pipes :
        /\ PipeOf(qp).pc = "error"
        /\ PipeOf(qp).id \in Ids
        /\ record[PipeOf(qp).id] \in Data
        /\ PipeOf(qp).data = NoRecord
        /\ emitted[qp[1]][<<"error", PipeOf(qp).id>>] >= 1
        /\ nbReq[qp[1]] = <<>>

\* In this step the store answers the oldest command of q, a renewal SET
\* (lock(id, true)) for id i, with an error.
FailsRenewal(q, i) ==
    /\ Executes(q, "SET")
    /\ ~Head(nbReq[q]).nx
    /\ Head(nbReq[q]).id = i
    /\ calls'.fault > calls.fault

\* A renewal of q for id i is scheduled or under way: a live timer, or a
\* renewal SET sent and not answered.
RenewalPending(q, i) ==
    \/ \E d \in 0..RenewDelay : timers[q][<<i, d>>] > 0
    \/ \E k \in 1..Len(nbReq[q]) :
          nbReq[q][k].op = "SET" /\ ~nbReq[q][k].nx /\ nbReq[q][k].id = i

\* C12 - Renewal failure stops the loop: when a renewal SET is not granted,
\* the instance emits 'error' for the task and sets no timer; from then on it
\* has no renewal of that task scheduled or under way and sends none.
C12_RenewalFailureStops ==
    /\ [][\A q \in Queues, i \in Ids :
            FailsRenewal(q, i)
            => /\ emitted'[q][<<"error", i>>] = emitted[q][<<"error", i>>] + 1
               /\ timers'[q] = timers[q]
               /\ lockTimeout'[q] = lockTimeout[q]]_vars
    /\ [][\A q \in Queues, i \in Ids :
            i \in renewFailed[q] => ~SendsSet(q, i, TRUE)]_vars
    /\ [](\A q \in Queues, i \in Ids :
            i \in renewFailed[q] => ~RenewalPending(q, i))

\* A renewal failed while the handler held the task: 'error' was emitted
\* once and, with no renewal any more, the lock key has expired.
C12_Witness ==
    \E qp \in Pipes :
        /\ PipeOf(qp).pc = "task"
        /\ PipeOf(qp).id \in renewFailed[qp[1]]
        /\ emitted[qp[1]][<<"error", PipeOf(qp).id>>] = 1
        /\ lockKey[PipeOf(qp).id].tok = NoToken

\* C13 - Enqueue reports the assigned id: the callback of a successful
\* enqueue(data) is run with the id INCR returned for the call, and from then
\* on that id is in the waiting list (or was moved to the working list) and
\* the record stored under it is data.
C13_EnqueueReportsId ==
    \A r \in enqueueReply :
        ~r.err
        => /\ r.result = JsNumber(r.id)
           /\ Occurrences(waiting, r.id) + Occurrences(working, r.id) = 1
           /\ record[getKeyForId(r.id)] = r.data

\* In this step the store answers the oldest command of q, the INCR or the
\* MULTI batch of an enqueue call, with an error.
FailsEnqueue(q) ==
    /\ \/ Executes(q, "INCR")
       \/ Executes(q, "MULTI")
    /\ calls'.fault > calls.fault

\* C14 - Enqueue failure: when the store answers the INCR or the batch of an
\* enqueue call with an error, the instance emits 'error' once, runs the
\* callback with the error, sends no further command (no retry) and the
\* counter, the lists and the records are left as they were; an id whose
\* batch failed is in no list and has no record.
C14_EnqueueFailure ==
    /\ [][\A q \in Queues :
            FailsEnqueue(q)
            => LET c == Head(nbReq[q])
               IN /\ emitted'[q][<<"error", NoId>>] = emitted[q][<<"error", NoId>>] + 1
                  /\ EnqueueCb(c.id, c.data, TRUE, JsUndefined) \in enqueueReply'
                  /\ nbReq'[q] = Tail(nbReq[q])
                  /\ <<idc, waiting, working, record>>' = <<idc, waiting, working, record>>]_vars
    /\ [](\A r \in enqueueReply :
            (r.err /\ r.id # NoId)
            => /\ Occurrences(waiting, r.id) + Occurrences(working, r.id) = 0
               /\ record[getKeyForId(r.id)] = NoRecord)

\* The batch of one enqueue call failed and another call went through: the
\* failed call's id is in no list, the callback was given the error and the
\* instance is idle.
C14_Witness ==
    \E r \in enqueueReply, o \in enqueueReply, q \in Queues :
        /\ r.err /\ r.id \in Ids
        /\ ~o.err
        /\ Occurrences(waiting, o.id) = 1
        /\ Occurrences(waiting, r.id) = 0
        /\ emitted[q][<<"error", NoId>>] = 1
        /\ \A x \in Queues : nbReq[x] = <<>>

\* The steps a waterfall of dequeue may take, as pairs of places.
PipeSteps ==
    { <<"wait", "lock">>, <<"lock", "load">>, <<"load", "task">>,
      <<"wait", "error">>, <<"lock", "error">>, <<"load", "error">>,
      <<"task", "unlock">>, <<"unlock", "end">> }

\* The number of commands op that q has sent for waterfall p and that are
\* not answered yet.
PendingFor(q, p, op) ==
    Cardinality({k \in 1..Len(nbReq[q]) : nbReq[q][k].op = op /\ nbReq[q][k].cb = p})

\* The sum of f over the set S.
RECURSIVE SumOver(_, _)
SumOver(f, S) ==
    IF S = {} THEN 0
    ELSE LET x == CHOOSE y \in S : TRUE
         IN f[x] + SumOver(f, S \ {x})

\* How often q has emitted 'error', with or without a task id.
Errors(q) ==
    SumOver([i \in {NoId} \cup Ids |-> emitted[q][<<"error", i>>]], {NoId} \cup Ids)

\* C15 - Dequeue pipeline order: a waterfall of dequeue moves from the
\* blocking wait to the lock only with an id moved from the tail of waiting
\* to the head of working, from the lock to the load only when its SET with
\* NX created the lock key with the instance's token, and to the handler only
\* from the load, with the record as stored and no 'error' emitted; every
\* other way out of these three steps emits 'error' and ends in the error
\* branch, which is never left.  Between the steps the waterfall has exactly
\* one command awaiting its answer, so once its wait has returned it ends in
\* the handler or in the error branch, never in both.
C15_PipelineOrder ==
    /\ [][\A q \in Queues : \A p \in 1..Len(pipes[q]) :
            LET a == pipes[q][p]
                b == pipes'[q][p]
            IN /\ a.pc # b.pc => <<a.pc, b.pc>> \in PipeSteps
               /\ (a.pc = "wait" /\ b.pc = "lock")
                  => /\ b.id \in Ids
                     /\ waiting = waiting' \o <<b.id>>
                     /\ working' = <<b.id>> \o working
                     /\ SendsSet(q, b.id, FALSE)
               /\ (a.pc = "lock" /\ b.pc = "load")
                  => /\ lockKey[a.id].tok = NoToken
                     /\ lockKey'[a.id] = [tok |-> q, ttl |-> LockTime]
                     /\ Occurrences(working, a.id) = 1
                     /\ b.id = a.id
               /\ (a.pc = "load" /\ b.pc = "task")
                  => /\ b.id = a.id
                     /\ b.data = record[getKeyForId(a.id)]
                     /\ Errors(q)' = Errors(q)
               /\ (a.pc # "error" /\ b.pc = "error")
                  => /\ Errors(q)' > Errors(q)
                     /\ b.data = NoRecord
                     /\ PendingFor(q, p, "HGETALL")' = 0]_vars
    /\ [](\A qp \in Pipes :
            /\ PendingFor(qp[1], qp[2], "SET") = (IF PipeOf(qp).pc = "lock" THEN 1 ELSE 0)
            /\ PendingFor(qp[1], qp[2], "HGETALL") = (IF PipeOf(qp).pc = "load" THEN 1 ELSE 0))

\* A waterfall ended in the error branch after its lock was granted: the load
\* failed, the task is in the working list and its handler was not run.
C15_Witness ==
    \E qp \in Pipes :
        /\ PipeOf(qp).pc = "error"
        /\ PipeOf(qp).id \in Ids
        /\ Occurrences(working, PipeOf(qp).id) = 1
        /\ lockKey[PipeOf(qp).id].tok = qp[1]
        /\ emitted[qp[1]][<<"error", PipeOf(qp).id>>] = 0
        /\ Errors(qp[1]) = 1

\* In this step half the lock time passes.
Ticks == lockKey' = [i \in Ids |-> TickLock(lockKey[i])] /\ UNCHANGED <<nbReq, calls, crashed>>

\* C16 - No automatic requeue: the working list only grows, at its head, and
\* an id in it is never pushed on the waiting list again; every id whose
\* batch was applied is exactly once in the two lists together, completed or
\* not; and once an instance has terminated and its last commands have
\* reached the store, no step creates or extends a lock key with its token,
\* every tick brings such a key nearer to its end and the key is gone after
\* the lock time, while the claimed id stays in the working list.
C16_NoRequeue ==
    /\ [][/\ \E k \in 0..1 : SubSeq(working', k + 1, Len(working')) = working
           /\ \A i \in Ids : Occurrences(working, i) > 0 => Occurrences(waiting', i) = 0]_vars
    /\ [](\A i \in Ids :
            Occurrences(waiting, i) + Occurrences(working, i) = Occurrences(pushed, i)
            /\ Occurrences(pushed, i) <= 1)
    /\ [][\A q \in crashed, i \in Ids :
            (nbReq[q] = <<>> /\ lockKey'[i].tok = q)
            => /\ lockKey[i].tok = q
               /\ lockKey'[i].ttl <= lockKey[i].ttl
               /\ Ticks => lockKey'[i].ttl < lockKey[i].ttl]_vars
    /\ [](\A i \in Ids : lockKey[i].ttl <= LockTime)

\* An instance terminated while its handler held a task: the lock key has
\* expired and the id is still in the working list, not in the waiting list.
C16_Witness ==
    \E qp \in Pipes :
        /\ qp[1] \in crashed
        /\ nbReq[qp[1]] = <<>>
        /\ PipeOf(qp).pc = "task"
        /\ lockKey[PipeOf(qp).id].tok = NoToken
        /\ Occurrences(working, PipeOf(qp).id) = 1
        /\ Occurrences(waiting, PipeOf(qp).id) = 0

\* The ids moved to the working list, in the order of the moves: the working
\* list read from its tail, since every move pushes on its head and nothing
\* is removed from it.
Moved == [k \in 1..Len(working) |-> working[Len(working) - k + 1]]

StrictlyIncreasing(seq) ==
    \A j \in 1..Len(seq), k \in 1..Len(seq) : j < k => seq[j] < seq[k]

\* C17 - FIFO claiming: the ids moved to the working list, over all
\* consumers, are the ids first pushed on the waiting list, in the order of
\* the pushes, and the rest of the pushed ids wait in that order; so when the
\* batches were applied in id order, the ids moved are strictly increasing.
C17_FifoClaiming ==
    /\ Len(Moved) <= Len(pushed)
    /\ Moved = SubSeq(pushed, 1, Len(Moved))
    /\ \A k \in 1..Len(waiting) : waiting[Len(waiting) - k + 1] = pushed[Len(Moved) + k]
    /\ StrictlyIncreasing(pushed) => StrictlyIncreasing(Moved)

\* Two ids were pushed in id order while no consumer was served, and then
\* claimed by two instances: id 1 was moved first.
C17_Witness ==
    /\ pushed = <<1, 2>>
    /\ Moved = <<1, 2>>
    /\ \E qp \in Pipes, qo \in Pipes :
          /\ qp[1] # qo[1]
          /\ PipeOf(qp).id = 1 /\ PipeOf(qo).id = 2
          /\ PipeOf(qo).pc = "task"
          /\ PipeOf(qp).pc = "lock"

\* The number of live renewal timers of q for id j.
TimerCount(q, j) ==
    SumOver([d \in 0..RenewDelay |-> timers[q][<<j, d>>]], 0..RenewDelay)

\* The ids on which q holds a granted lock through a waterfall of dequeue:
\* granted, and the task's completion function not called yet.
Held(q) ==
    {PipeOf(qp).id : qp \in {x \in Pipes : x[1] = q /\ PipeOf(x).pc \in {"load", "task"}}}

\* C18 - Independent renewal per held lock: while an instance holds granted
\* locks on two task ids, a lock call for one of them (the SET of a first
\* acquisition or of a renewal) leaves the renewal timers of the other as
\* they are, and each of the two locks has a renewal scheduled or under way.
C18_IndependentRenewal ==
    /\ [][\A q \in Queues, i \in Ids :
            (SendsSet(q, i, FALSE) \/ SendsSet(q, i, TRUE))
            => \A j \in Held(q) \ {i} : TimerCount(q, j)' = TimerCount(q, j)]_vars
    /\ [](\A q \in Queues :
            Cardinality(Held(q)) = 2 => \A j \in Held(q) : RenewalPending(q, j))

\* C19 - Renewal respects ownership: when the store executes a renewal SET
\* (lock(id, true)) of an instance while the lock key does not hold that
\* instance's token (the key is absent, or holds another instance's token),
\* the lock key is left as it is.
C19_RenewalRespectsOwnership ==
    [][\A q \in Queues :
          (/\ Executes(q, "SET")
           /\ ~Head(nbReq[q]).nx
           /\ lockKey[Head(nbReq[q]).id].tok # q)
          => lockKey' = lockKey]_vars

\* In this step the first acquisition of waterfall p of q is not granted: the
\* store refuses its SET with NX, or answers it with an error.
ClaimNotGranted(q, p) ==
    \/ RefusesClaim(q, p)
    \/ /\ Executes(q, "SET")
       /\ Head(nbReq[q]).nx
       /\ Head(nbReq[q]).cb = p
       /\ calls'.fault > calls.fault

\* C20 - One error per failed claim: when the first acquisition of a
\* waterfall of dequeue is not granted, the instance emits 'error' exactly
\* once in all.
C20_OneErrorPerFailedClaim ==
    [][\A q \in Queues, p \in 1..MaxDequeue :
          ClaimNotGranted(q, p) => Errors(q)' = Errors(q) + 1]_vars

====
